---- MODULE Spec2Model ----
(***************************************************************************)
(* Equipment tracker (equipment/models.py, equipment/views.py): the Item   *)
(* state machine, its kit cascades, the Transaction ledger, the due-date   *)
(* policy and the overdue computation.                                     *)
(*                                                                         *)
(* Timestamps are minutes since a Monday 00:00; a date is a day number     *)
(* (timestamp \div 1440), so that isoweekday = (day % 7) + 1.              *)
(*                                                                         *)
(* The methods of Item act on an in-memory object (obj) that was loaded    *)
(* from the database (db); kit cascades act on freshly loaded rows of the  *)
(* kit's contents.                                                         *)
(***************************************************************************)
EXTENDS Integers, Sequences, FiniteSets, TLC

VARIABLES db,      \* persisted Item rows, by item id
          ledger,  \* persisted Transaction rows, in insertion order
          obj,     \* the in-memory Item the caller holds (NoObj when none)
          now,     \* the clock, in minutes
          last,    \* the last call made and its outcome
          penalties, \* persisted Penalty rows, in insertion order
          procs    \* the requests in progress: their step and their in-memory Item

vars == <<db, ledger, obj, now, last, penalties, procs>>

----------------------------------------------------------------------------
(* Program constants *)

INSTOCK == 1
OUT == 2
REPAIR == 3

ADD == 1
CHECKOUT == 2
CHECKIN == 3

NoPerson == 0   \* checked_out_by / person = None
NoDue == 0 - 1  \* due = None
NoKit == 0      \* part_of_kit = None, note = None

MinutesPerDay == 1440
FridayIso == 5
FridayDays == 3
FridayTime == 470     \* 07:50
OtherDays == 1
OtherTime == 1070     \* 17:50

STUDENT_KIND == 0
STAFF_KIND == 1
BASE_PENALTY_AMOUNT == 2500

----------------------------------------------------------------------------
(* Bounds of the model *)

MaxLedger == 3        \* Transaction rows kept in the ledger
MaxDay == 8           \* the clock stops on this day
MaxPenalties == 1     \* Penalty rows kept
MaxDepth == 5         \* innermost nested calls whose frames are kept
StartNow == 4 * MinutesPerDay + 600   \* Friday 10:00

KitIds == {1}
RepairIds == {2}     \* items that may start out for repair
Items == {1, 2, 3}
Persons == {1}
CustomDues == {100}   \* explicit due timestamps a caller may pass
ClockItems == {2}     \* the item followed through the week
DayMinutes == {0, 600, 1439}                   \* times of day the clock starts at
Deltas == {0 - 1, 0, 1, 1439, 1440, 1441, 2881}  \* as_of, relative to due

----------------------------------------------------------------------------
(* Item rows *)

NoObj == [id |-> 0]

Unsaved == 0 - 1      \* the id (None) of an Item that was never saved

NewItem(i, st) ==
  [id |-> i, kit |-> (i \in KitIds), serialnumber |-> ToString(i), hip_number |-> "",
   status |-> st, checked_out_by |-> NoPerson, due |-> NoDue, part_of_kit |-> NoKit]

Tx(i, p, k, n) == [item |-> i, person |-> p, kind |-> k, note |-> n]

(* The result of a call: the database, the ledger, the in-memory object the
   call was made on, and the exception that left it ("" when it returned). *)
World(d, l, s, e) == [db |-> d, ledger |-> l, self |-> s, err |-> e]

RECURSIVE RowsFrom(_, _, _)
RowsFrom(d, k, i) ==
  IF i \notin DOMAIN d THEN <<>>
  ELSE IF d[i].part_of_kit = k THEN <<d[i]>> \o RowsFrom(d, k, i + 1)
  ELSE RowsFrom(d, k, i + 1)

(* self.contents.all(): the rows whose part_of_kit is the kit, in Meta.ordering *)
contents(d, k) == RowsFrom(d, k, 1)

is_kit(self) == self.kit

----------------------------------------------------------------------------
(* Due-date policy *)

isoweekday(day) == (day % 7) + 1

(* Friday checkouts treated like any other day *)
DefaultDue_NoFriday(t) ==
  ((t \div MinutesPerDay) + OtherDays) * MinutesPerDay + OtherTime

DefaultDue(t) ==
  LET today == t \div MinutesPerDay
  IN IF isoweekday(today) = FridayIso
     THEN (today + FridayDays) * MinutesPerDay + FridayTime
     ELSE (today + OtherDays) * MinutesPerDay + OtherTime

set_due_datetime(self, custom_due_datetime) ==
  IF custom_due_datetime # NoDue
  THEN [self EXCEPT !.due = custom_due_datetime]
  ELSE [self EXCEPT !.due = DefaultDue(now)]

----------------------------------------------------------------------------
(* Overdue computation *)

is_checked_out(self) == self.status = OUT

(* timedelta.days of a positive difference: the whole days in it *)
days(delta) == delta \div MinutesPerDay

(* The whole days only, without the day that has begun *)
days_overdue_WholeDays(self, as_of) ==
  LET t == IF as_of = NoDue THEN now ELSE as_of
  IN IF ~is_checked_out(self) THEN 0
     ELSE IF self.due = NoDue THEN 0 - 1
     ELSE IF self.due >= t THEN 0
     ELSE days(t - self.due)

(* The number returned, or -1 when the comparison of None with a timestamp raises *)
days_overdue(self, as_of) ==
  LET t == IF as_of = NoDue THEN now ELSE as_of
  IN IF ~is_checked_out(self) THEN 0
     ELSE IF self.due = NoDue THEN 0 - 1
     ELSE IF self.due >= t THEN 0
     ELSE days(t - self.due) + 1

----------------------------------------------------------------------------
(* Item.save *)

RECURSIVE save(_, _), SaveContents(_, _, _)

(* unique_together: another row holds the same (serialnumber, hip_number) pair *)
Duplicate(d, self) ==
  \E n \in DOMAIN d :
    /\ n # self.id
    /\ d[n].serialnumber = self.serialnumber
    /\ d[n].hip_number = self.hip_number

(* Written without the check of the two numbers *)
save_Unvalidated(w, self) ==
  LET w1 == IF is_kit(self)
            THEN SaveContents(w, contents(w.db, self.id), self.due)
            ELSE w
  IN IF w1.err # ""
     THEN World(w1.db, w1.ledger, self, w1.err)
     ELSE IF Duplicate(w1.db, self)
     THEN World(w1.db, w1.ledger, self, "IntegrityError")
     ELSE IF self.id = Unsaved
     THEN LET s1 == [self EXCEPT !.id = Len(w1.db) + 1]
          IN World(Append(w1.db, s1), w1.ledger, s1, "")
     ELSE World([w1.db EXCEPT ![self.id] = self], w1.ledger, self, "")

save(w, self) ==
  IF self.serialnumber = "" /\ self.hip_number = ""
  THEN World(w.db, w.ledger, self, "ItemError")
  ELSE LET w1 == IF is_kit(self)
                 THEN SaveContents(w, contents(w.db, self.id), self.due)
                 ELSE w
       IN IF w1.err # ""
          THEN World(w1.db, w1.ledger, self, w1.err)
          ELSE IF Duplicate(w1.db, self)
          THEN World(w1.db, w1.ledger, self, "IntegrityError")
          ELSE IF self.id = Unsaved
          THEN LET s1 == [self EXCEPT !.id = Len(w1.db) + 1]
               IN World(Append(w1.db, s1), w1.ledger, s1, "")
          ELSE World([w1.db EXCEPT ![self.id] = self], w1.ledger, self, "")

SaveContents(w, rows, due) ==
  IF rows = <<>> \/ w.err # "" THEN w
  ELSE SaveContents(save(w, set_due_datetime(Head(rows), due)), Tail(rows), due)

----------------------------------------------------------------------------
(* Item.add_to_stock, Item.check_out, Item.check_in *)

RECURSIVE add_to_stock(_, _, _), AddContents(_, _, _)
RECURSIVE check_out(_, _, _, _, _), CheckOutContents(_, _, _, _)
RECURSIVE check_in(_, _, _), CheckInContents(_, _, _)

(* An ADDED row written whatever the status is *)
add_to_stock_Always(w, self, note) ==
  LET l1 == Append(w.ledger, Tx(self.id, NoPerson, ADD, note))
      s1 == [self EXCEPT !.status = INSTOCK]
      w1 == World(w.db, l1, s1, "")
  IN IF is_kit(s1)
     THEN LET w2 == AddContents(w1, contents(w1.db, s1.id), s1.id)
          IN World(w2.db, w2.ledger, s1, w2.err)
     ELSE w1

add_to_stock(w, self, note) ==
  LET l1 == IF self.status # INSTOCK
            THEN Append(w.ledger, Tx(self.id, NoPerson, ADD, note))
            ELSE w.ledger
      s1 == IF self.status # INSTOCK THEN [self EXCEPT !.status = INSTOCK] ELSE self
      w1 == World(w.db, l1, s1, "")
  IN IF is_kit(s1)
     THEN LET w2 == AddContents(w1, contents(w1.db, s1.id), s1.id)
          IN World(w2.db, w2.ledger, s1, w2.err)
     ELSE w1

AddContents(w, rows, kit) ==
  IF rows = <<>> \/ w.err # "" THEN w
  ELSE LET w1 == add_to_stock(w, Head(rows), kit)
           w2 == IF w1.err # "" THEN w1 ELSE save(w1, w1.self)
       IN AddContents(w2, Tail(rows), kit)

(* Refuses only an item that is already checked out *)
check_out_RefusesOnlyOut(w, self, person, custom_due_datetime, note) ==
  IF self.status = OUT
  THEN World(w.db, w.ledger, self, "TransactionError")
  ELSE LET l1 == Append(w.ledger, Tx(self.id, person, CHECKOUT, note))
           s1 == set_due_datetime([self EXCEPT !.status = OUT, !.checked_out_by = person],
                                  custom_due_datetime)
           w2 == save(World(w.db, l1, s1, ""), s1)
       IN IF w2.err = "" /\ is_kit(s1)
          THEN LET w3 == CheckOutContents(w2, contents(w2.db, s1.id), person, s1.id)
               IN World(w3.db, w3.ledger, s1, w3.err)
          ELSE w2

check_out(w, self, person, custom_due_datetime, note) ==
  IF self.status # INSTOCK
  THEN World(w.db, w.ledger, self, "TransactionError")
  ELSE LET l1 == Append(w.ledger, Tx(self.id, person, CHECKOUT, note))
           s1 == set_due_datetime([self EXCEPT !.status = OUT, !.checked_out_by = person],
                                  custom_due_datetime)
           w2 == save(World(w.db, l1, s1, ""), s1)
       IN IF w2.err = "" /\ is_kit(s1)
          THEN LET w3 == CheckOutContents(w2, contents(w2.db, s1.id), person, s1.id)
               IN World(w3.db, w3.ledger, s1, w3.err)
          ELSE w2

(* Stops after the first contained item *)
CheckOutContents_FirstOnly(w, rows, person, kit) ==
  IF rows = <<>> \/ w.err # "" THEN w
  ELSE check_out(w, Head(rows), person, NoDue, kit)

CheckOutContents(w, rows, person, kit) ==
  IF rows = <<>> \/ w.err # "" THEN w
  ELSE CheckOutContents(check_out(w, Head(rows), person, NoDue, kit), Tail(rows), person, kit)

(* Forgets to clear the borrower *)
check_in_KeepsBorrower(w, self, note) ==
  IF self.status # OUT
  THEN World(w.db, w.ledger, self, "TransactionError")
  ELSE LET person == self.checked_out_by
           l1 == Append(w.ledger, Tx(self.id, person, CHECKIN, note))
           s1 == [self EXCEPT !.status = INSTOCK]
           w2 == save(World(w.db, l1, s1, ""), s1)
       IN IF w2.err = "" /\ is_kit(s1)
          THEN LET w3 == CheckInContents(w2, contents(w2.db, s1.id), s1.id)
               IN World(w3.db, w3.ledger, s1, w3.err)
          ELSE w2

(* Refuses only an item that is in stock *)
check_in_RefusesOnlyInStock(w, self, note) ==
  IF self.status = INSTOCK
  THEN World(w.db, w.ledger, self, "TransactionError")
  ELSE LET person == self.checked_out_by
           l1 == Append(w.ledger, Tx(self.id, person, CHECKIN, note))
           s1 == [self EXCEPT !.status = INSTOCK, !.checked_out_by = NoPerson]
           w2 == save(World(w.db, l1, s1, ""), s1)
       IN IF w2.err = "" /\ is_kit(s1)
          THEN LET w3 == CheckInContents(w2, contents(w2.db, s1.id), s1.id)
               IN World(w3.db, w3.ledger, s1, w3.err)
          ELSE w2

check_in(w, self, note) ==
  IF self.status # OUT
  THEN World(w.db, w.ledger, self, "TransactionError")
  ELSE LET person == self.checked_out_by
           l1 == Append(w.ledger, Tx(self.id, person, CHECKIN, note))
           s1 == [self EXCEPT !.status = INSTOCK, !.checked_out_by = NoPerson]
           w2 == save(World(w.db, l1, s1, ""), s1)
       IN IF w2.err = "" /\ is_kit(s1)
          THEN LET w3 == CheckInContents(w2, contents(w2.db, s1.id), s1.id)
               IN World(w3.db, w3.ledger, s1, w3.err)
          ELSE w2

CheckInContents(w, rows, kit) ==
  IF rows = <<>> \/ w.err # "" THEN w
  ELSE CheckInContents(check_in(w, Head(rows), kit), Tail(rows), kit)

----------------------------------------------------------------------------
(* The calls a caller makes *)

(* What the caller sees of a call: its name, the exception it raised ("" when
   it returned) and the number it returned (0 when it returns nothing). *)
Outcome(op, e, r) == [op |-> op, err |-> e, ret |-> r]

Here == World(db, ledger, obj, "")

Commit(op, w) ==
  /\ Len(w.ledger) <= MaxLedger
  /\ db' = w.db
  /\ ledger' = w.ledger
  /\ obj' = w.self
  /\ last' = Outcome(op, w.err, 0)
  /\ UNCHANGED <<now, penalties, procs>>

(* Item.find_by_number / refetch: load the row into memory *)
Fetch(i) ==
  /\ i \in DOMAIN db
  /\ obj' = db[i]
  /\ last' = Outcome("fetch", "", 0)
  /\ UNCHANGED <<db, ledger, now, penalties, procs>>

AddToStock ==
  /\ obj.id # 0
  /\ Commit("add_to_stock", add_to_stock(Here, obj, NoKit))

CheckOut(p, c) ==
  /\ obj.id # 0
  /\ Commit("check_out", check_out(Here, obj, p, c, NoKit))

CheckIn ==
  /\ obj.id # 0
  /\ Commit("check_in", check_in(Here, obj, NoKit))

SetDueDatetime(c) ==
  /\ obj.id # 0
  /\ Commit("set_due_datetime", World(db, ledger, set_due_datetime(obj, c), ""))

Save ==
  /\ obj.id # 0
  /\ Commit("save", save(Here, obj))

(* Written without the test of the kit's item type *)
BuildKit_AnyParent(k, i) ==
  /\ db[i].kit = FALSE
  /\ db[i].part_of_kit = NoKit
  /\ Commit("buildkit", save(Here, [db[i] EXCEPT !.part_of_kit = k]))

(* views.buildkit, POST: kit.contents.add(item) sets item.part_of_kit and saves item *)
BuildKit(k, i) ==
  /\ db[k].kit = TRUE
  /\ db[i].kit = FALSE
  /\ db[i].part_of_kit = NoKit
  /\ Commit("buildkit", save(Here, [db[i] EXCEPT !.part_of_kit = k]))

(* item.days_overdue(as_of): reads the in-memory object and the clock *)
DaysOverdue(a) ==
  /\ obj.id # 0
  /\ LET r == days_overdue(obj, a)
     IN last' = IF r < 0 THEN Outcome("days_overdue", "TypeError", 0)
                ELSE Outcome("days_overdue", "", r)
  /\ UNCHANGED <<db, ledger, obj, now, penalties, procs>>

(* Time passes: one day at a time *)
Tick ==
  /\ now \div MinutesPerDay < MaxDay
  /\ now' = now + MinutesPerDay
  /\ UNCHANGED <<db, ledger, obj, last, penalties, procs>>

Init ==
  /\ db \in {d \in [Items -> UNION {{NewItem(i, INSTOCK), NewItem(i, REPAIR)} : i \in Items}] :
               \A i \in Items : d[i].id = i /\ (i \notin RepairIds => d[i].status = INSTOCK)}
  /\ ledger = <<>>
  /\ obj = NoObj
  /\ now = StartNow
  /\ last = Outcome("init", "", 0)
  /\ penalties = <<>>
  /\ procs = <<>>

(* Explicit due timestamps reach the items through check_out here; set_due_datetime
   is called with one in SpecClock. *)
Next ==
  \/ \E i \in Items : Fetch(i)
  \/ AddToStock
  \/ \E p \in Persons, c \in CustomDues \cup {NoDue} : CheckOut(p, c)
  \/ CheckIn
  \/ SetDueDatetime(NoDue)
  \/ Save
  \/ \E k \in Items, i \in Items : BuildKit(k, i)

Spec == Init /\ [][Next]_vars

----------------------------------------------------------------------------
(* One item followed through the week: the clock starts on a Monday, at one of
   DayMinutes, and a day passes at a time; the due-date policy and the overdue
   computation are exercised on every day of the week. *)

AsOfs == {NoDue} \cup (IF obj.id # 0 /\ obj.due # NoDue
                       THEN {obj.due + d : d \in Deltas} ELSE {})

InitClock ==
  /\ db = [i \in Items |-> NewItem(i, INSTOCK)]
  /\ ledger = <<>>
  /\ obj = NoObj
  /\ now \in DayMinutes
  /\ last = Outcome("init", "", 0)
  /\ penalties = <<>>
  /\ procs = <<>>

NextClock ==
  \/ \E i \in ClockItems : Fetch(i)
  \/ \E p \in Persons, c \in CustomDues \cup {NoDue} : CheckOut(p, c)
  \/ CheckIn
  \/ \E c \in CustomDues \cup {NoDue} : SetDueDatetime(c)
  \/ \E a \in AsOfs : DaysOverdue(a)
  \/ Tick

SpecClock == InitClock /\ [][NextClock]_vars

----------------------------------------------------------------------------
(* Items created and looked up by number: the inventory starts empty, items are
   constructed with the numbers of Numbers, saved, and found again by a scanned
   number. *)

MaxItems == 3

Numbers == {"", "A", "B"}

(* The rows Q(hip_number=number) | Q(serialnumber=number) selects *)
matches(d, number) ==
  {i \in DOMAIN d : d[i].hip_number = number \/ d[i].serialnumber = number}

Found(e, m, ids, item) == [err |-> e, msg |-> m, ids |-> ids, item |-> item]

(* HIP number first, serial number only when no HIP number matches *)
find_by_number_HipFirst(d, number) ==
  LET h == {i \in DOMAIN d : d[i].hip_number = number}
      m == IF h # {} THEN h ELSE {i \in DOMAIN d : d[i].serialnumber = number}
  IN IF Cardinality(m) > 1
     THEN Found("ItemError", "Multiple matches", m, NoObj)
     ELSE IF Cardinality(m) = 0
     THEN Found("ItemError", "No item found", {}, NoObj)
     ELSE Found("", "", {}, d[CHOOSE i \in m : TRUE])

find_by_number(d, number) ==
  LET m == matches(d, number)
  IN IF Cardinality(m) > 1
     THEN Found("ItemError", "Multiple matches", m, NoObj)
     ELSE IF Cardinality(m) = 0
     THEN Found("ItemError", "No item found", {}, NoObj)
     ELSE Found("", "", {}, d[CHOOSE i \in m : TRUE])

(* item = Item.find_by_number(number): the caller's variable is bound only when
   the lookup returns *)
FindByNumber(number) ==
  LET f == find_by_number(db, number)
  IN /\ obj' = IF f.err = "" THEN f.item ELSE obj
     /\ last' = [op |-> "find_by_number", err |-> f.err, ret |-> 0,
                 msg |-> f.msg, ids |-> f.ids]
     /\ UNCHANGED <<db, ledger, now, penalties, procs>>

(* Item(itemtype=..., serialnumber=s, hip_number=h): an object not yet saved *)
Construct(s, h) ==
  /\ Len(db) < MaxItems
  /\ obj' = [NewItem(Unsaved, INSTOCK) EXCEPT !.serialnumber = s, !.hip_number = h]
  /\ last' = Outcome("construct", "", 0)
  /\ UNCHANGED <<db, ledger, now, penalties, procs>>

InitLookup ==
  /\ db = <<>>
  /\ ledger = <<>>
  /\ obj = NoObj
  /\ now = StartNow
  /\ last = Outcome("init", "", 0)
  /\ penalties = <<>>
  /\ procs = <<>>

NextLookup ==
  \/ \E s \in Numbers, h \in Numbers : Construct(s, h)
  \/ Save
  \/ \E n \in Numbers : FindByNumber(n)

SpecLookup == InitLookup /\ [][NextLookup]_vars

----------------------------------------------------------------------------
(* Late penalties: items are lent to a student and to a member of staff, days
   pass, and penalties are levied. *)

PenaltyPersons == {1, 2}
PenaltyStart == 6 * MinutesPerDay + 600   \* Sunday 10:00
PenaltyItems == {2, 3}

(* Person.kind *)
kind(p) == IF p = 1 THEN STUDENT_KIND ELSE STAFF_KIND

RECURSIVE LentFrom(_, _, _)
LentFrom(d, p, i) ==
  IF i \notin DOMAIN d THEN <<>>
  ELSE IF d[i].checked_out_by = p THEN <<d[i]>> \o LentFrom(d, p, i + 1)
  ELSE LentFrom(d, p, i + 1)

(* student.item_set.all(): the rows whose checked_out_by is the person *)
item_set(d, p) == LentFrom(d, p, 1)

(* overdue_days = max(overdue_days, item.days_overdue()) over the rows; -1 once
   a days_overdue() call raised *)
RECURSIVE MaxOverdue(_, _)
MaxOverdue(rows, acc) ==
  IF rows = <<>> \/ acc < 0 THEN acc
  ELSE LET r == days_overdue(Head(rows), NoDue)
       IN MaxOverdue(Tail(rows), IF r < 0 THEN r ELSE IF r > acc THEN r ELSE acc)

RECURSIVE MostLate(_, _)
MostLate(rows, overdue_days) ==
  IF rows = <<>> THEN {}
  ELSE (IF days_overdue(Head(rows), NoDue) = overdue_days THEN {Head(rows).id} ELSE {})
         \cup MostLate(Tail(rows), overdue_days)

NewPenalty(p, a, its) == [student |-> p, amount |-> a, items |-> its]

(* What levy leaves: the Penalty rows, the amount of the penalty returned (0 when
   it returns nothing) and the exception that left it *)
Levied(ps, a, e) == [penalties |-> ps, amount |-> a, err |-> e]

(* The days of all the overdue items added up *)
levy_SumDays(d, ps, student) ==
  LET RECURSIVE Sum(_)
      Sum(rows) == IF rows = <<>> THEN 0
                   ELSE days_overdue(Head(rows), NoDue) + Sum(Tail(rows))
      overdue_days == Sum(item_set(d, student))
      penalty_amount == BASE_PENALTY_AMOUNT * overdue_days
  IN IF penalty_amount = 0 THEN Levied(ps, 0, "")
     ELSE Levied(Append(ps, NewPenalty(student, penalty_amount,
                                       MostLate(item_set(d, student), overdue_days))),
                 penalty_amount, "")

(* Every item the person holds attached *)
levy_AttachAll(d, ps, student) ==
  LET overdue_days == MaxOverdue(item_set(d, student), 0)
      penalty_amount == BASE_PENALTY_AMOUNT * overdue_days
  IN IF overdue_days < 0 THEN Levied(ps, 0, "TypeError")
     ELSE IF penalty_amount = 0 THEN Levied(ps, 0, "")
     ELSE Levied(Append(ps, NewPenalty(student, penalty_amount,
                                       {i \in DOMAIN d : d[i].checked_out_by = student})),
                 penalty_amount, "")

(* Penalty.levy, with one reading of the clock for the whole call *)
levy(d, ps, student) ==
  LET overdue_days == MaxOverdue(item_set(d, student), 0)
      penalty_amount == BASE_PENALTY_AMOUNT * overdue_days
  IN IF overdue_days < 0 THEN Levied(ps, 0, "TypeError")
     ELSE IF penalty_amount = 0 THEN Levied(ps, 0, "")
     ELSE Levied(Append(ps, NewPenalty(student, penalty_amount,
                                       MostLate(item_set(d, student), overdue_days))),
                 penalty_amount, "")

Levy(p) ==
  LET r == levy(db, penalties, p)
  IN /\ Len(r.penalties) <= MaxPenalties
     /\ penalties' = r.penalties
     /\ last' = Outcome("levy", r.err, r.amount)
     /\ UNCHANGED <<db, ledger, obj, now, procs>>

(* views.penalty_statement, POST: the person is looked up by id number, whatever
   their kind; the message reads the amount of what levy returned *)
PenaltyStatement(p) ==
  LET r == levy(db, penalties, p)
  IN /\ Len(r.penalties) <= MaxPenalties
     /\ penalties' = r.penalties
     /\ last' = Outcome("penalty_statement",
                        IF r.err # "" THEN r.err
                        ELSE IF r.amount = 0 THEN "AttributeError" ELSE "",
                        r.amount)
     /\ UNCHANGED <<db, ledger, obj, now, procs>>

InitPenalty ==
  /\ db = [i \in Items |-> NewItem(i, INSTOCK)]
  /\ ledger = <<>>
  /\ obj = NoObj
  /\ now = PenaltyStart
  /\ last = Outcome("init", "", 0)
  /\ penalties = <<>>
  /\ procs = <<>>

NextPenalty ==
  \/ \E i \in PenaltyItems : Fetch(i)
  \/ \E p \in PenaltyPersons, c \in CustomDues \cup {NoDue} : CheckOut(p, c)
  \/ Tick
  \/ \E p \in PenaltyPersons : Levy(p)
  \/ \E p \in PenaltyPersons : PenaltyStatement(p)

SpecPenalty == InitPenalty /\ [][NextPenalty]_vars

----------------------------------------------------------------------------
(* Two checkout requests served at the same time. Each request runs the lines
   of the check_out view and of Item.check_out in order; every statement that
   touches the database commits on its own, and nothing locks the row between
   the lookup and the write. *)

RaceProcs == {1, 2}
RaceItems == {2, 3}

Idle == [pc |-> "idle", item |-> NoObj]

(* item = Item.find_by_number(number): the row is read, status included *)
RaceFind(r, i) ==
  /\ procs[r].pc = "idle"
  /\ procs' = [procs EXCEPT ![r] = [pc |-> "found", item |-> db[i]]]
  /\ UNCHANGED <<db, ledger, obj, now, last, penalties>>

(* if self.status != self.INSTOCK: raise TransactionError *)
RaceTest(r) ==
  /\ procs[r].pc = "found"
  /\ procs' = [procs EXCEPT ![r].pc = IF procs[r].item.status # INSTOCK
                                      THEN "refused" ELSE "tested"]
  /\ UNCHANGED <<db, ledger, obj, now, last, penalties>>

(* Transaction.objects.create(item=self, person=person, kind=CHECKOUT) *)
RaceInsert(r) ==
  /\ procs[r].pc = "tested"
  /\ Len(ledger) < MaxLedger
  /\ ledger' = Append(ledger, Tx(procs[r].item.id, r, CHECKOUT, NoKit))
  /\ procs' = [procs EXCEPT ![r].pc = "inserted"]
  /\ UNCHANGED <<db, obj, now, last, penalties>>

(* self.status = OUT; self.checked_out_by = person; self.set_due_datetime(...);
   self.save() *)
RaceWrite(r) ==
  /\ procs[r].pc = "inserted"
  /\ LET s1 == [procs[r].item EXCEPT !.status = OUT, !.checked_out_by = r]
         s2 == set_due_datetime(s1, NoDue)
         w == save(World(db, ledger, s2, ""), s2)
     IN /\ db' = w.db
        /\ procs' = [procs EXCEPT ![r] = [pc |-> "done", item |-> w.self]]
  /\ UNCHANGED <<ledger, obj, now, last, penalties>>

(* The response is sent; the next request of this client begins *)
RaceEnd(r) ==
  /\ procs[r].pc \in {"done", "refused"}
  /\ procs' = [procs EXCEPT ![r] = Idle]
  /\ UNCHANGED <<db, ledger, obj, now, last, penalties>>

InitRace ==
  /\ db = [i \in Items |-> NewItem(i, INSTOCK)]
  /\ ledger = <<>>
  /\ obj = NoObj
  /\ now = StartNow
  /\ last = Outcome("init", "", 0)
  /\ penalties = <<>>
  /\ procs = [r \in RaceProcs |-> Idle]

NextRace ==
  \/ \E r \in RaceProcs, i \in RaceItems : RaceFind(r, i)
  \/ \E r \in RaceProcs : RaceTest(r)
  \/ \E r \in RaceProcs : RaceInsert(r)
  \/ \E r \in RaceProcs : RaceWrite(r)
  \/ \E r \in RaceProcs : RaceEnd(r)
  \/ \E i \in RaceItems : Fetch(i)
  \/ CheckIn

SpecRace == InitRace /\ [][NextRace]_vars

----------------------------------------------------------------------------
(* Kits built and lent: every item starts IN_STOCK and only the kit-building
   view, check_out and check_in act. *)

InitKits ==
  /\ db = [i \in Items |-> NewItem(i, INSTOCK)]
  /\ ledger = <<>>
  /\ obj = NoObj
  /\ now = StartNow
  /\ last = Outcome("init", "", 0)
  /\ penalties = <<>>
  /\ procs = <<>>

NextKits ==
  \/ \E i \in Items : Fetch(i)
  \/ \E p \in Persons, c \in CustomDues \cup {NoDue} : CheckOut(p, c)
  \/ CheckIn
  \/ \E k \in Items, i \in Items : BuildKit(k, i)

SpecKits == InitKits /\ [][NextKits]_vars

----------------------------------------------------------------------------
(* Kits built out of any inventory: which items are of a kit type is left open,
   so that there may be no kit, several kits, or nothing but kits. *)

InitBuild ==
  /\ \E t \in [Items -> BOOLEAN] :
       db = [i \in Items |-> [NewItem(i, INSTOCK) EXCEPT !.kit = t[i]]]
  /\ ledger = <<>>
  /\ obj = NoObj
  /\ now = StartNow
  /\ last = Outcome("init", "", 0)
  /\ penalties = <<>>
  /\ procs = <<>>

NextBuild ==
  \/ \E i \in Items : Fetch(i)
  \/ \E k \in Items, i \in Items : BuildKit(k, i)
  \/ \E p \in Persons : CheckOut(p, NoDue)
  \/ CheckIn
  \/ Save

SpecBuild == InitBuild /\ [][NextBuild]_vars

----------------------------------------------------------------------------
(* The checkout and check-in pages: the borrower is named by an id number, the
   item by a scanned number, and days pass. Person 1 has no expiry date, the id
   of person 2 expires on ExpiryDay, and no other id number is on record. *)

People == {1, 2}
SuppliedIds == {NoPerson, 1, 2, 3}     \* NoPerson: no person id in the URL
ScannedNumbers == {"2", "3", "9"}
ExpiryDay == 6
NoExpiry == 0 - 1

id_expiry(p) == IF p = 2 THEN ExpiryDay ELSE NoExpiry

date_today == now \div MinutesPerDay

(* Active through the whole day of expiry *)
is_active_OnExpiryDay(p) ==
  IF id_expiry(p) # NoExpiry THEN id_expiry(p) >= date_today ELSE TRUE

(* Person.is_active *)
is_active(p) ==
  IF id_expiry(p) # NoExpiry THEN id_expiry(p) > date_today ELSE TRUE

(* views.check_out, POST with a scanned number *)
check_out_view(w, person_id, number, custom_due_datetime) ==
  IF person_id # NoPerson /\ person_id \notin People
  THEN World(w.db, w.ledger, NoObj, "DoesNotExist")
  ELSE IF person_id # NoPerson /\ ~is_active(person_id)
  THEN World(w.db, w.ledger, NoObj, "DoesNotExist")
  ELSE LET f == find_by_number(w.db, number)
       IN IF f.err # "" THEN World(w.db, w.ledger, NoObj, f.err)
          ELSE IF person_id = NoPerson
          THEN World(w.db, w.ledger, f.item, "UnboundLocalError")
          ELSE check_out(w, f.item, person_id, custom_due_datetime, NoKit)

CheckOutView(person_id, number, c) ==
  LET w == check_out_view(World(db, ledger, NoObj, ""), person_id, number, c)
  IN /\ Len(w.ledger) <= MaxLedger
     /\ db' = w.db
     /\ ledger' = w.ledger
     /\ last' = Outcome("check_out_view", w.err, 0)
     /\ UNCHANGED <<obj, now, penalties, procs>>

(* views.check_in, POST *)
CheckInView(number) ==
  LET f == find_by_number(db, number)
      w == IF f.err # "" THEN World(db, ledger, NoObj, f.err)
           ELSE IF days_overdue(f.item, NoDue) < 0
           THEN World(db, ledger, f.item, "TypeError")
           ELSE check_in(World(db, ledger, f.item, ""), f.item, NoKit)
  IN /\ Len(w.ledger) <= MaxLedger
     /\ db' = w.db
     /\ ledger' = w.ledger
     /\ last' = Outcome("check_in_view", w.err, 0)
     /\ UNCHANGED <<obj, now, penalties, procs>>

InitView ==
  /\ db = [i \in Items |-> NewItem(i, INSTOCK)]
  /\ ledger = <<>>
  /\ obj = NoObj
  /\ now = StartNow
  /\ last = Outcome("init", "", 0)
  /\ penalties = <<>>
  /\ procs = <<>>

NextView ==
  \/ \E pid \in SuppliedIds, n \in ScannedNumbers : CheckOutView(pid, n, NoDue)
  \/ \E n \in ScannedNumbers : CheckInView(n)
  \/ Tick

SpecView == InitView /\ [][NextView]_vars

----------------------------------------------------------------------------
(* Penalty.levy taken scan by scan: the first loop and the creation of the
   Penalty are one step, the second loop and the final save another; check-ins
   and the clock may act in between, since nothing holds the two scans together.
   procs remembers what the first scan saw of each item. *)

NoLevy == [pc |-> "idle"]

(* equipment_lent = student.item_set.all(); the loop computing overdue_days;
   cls.objects.create(student=student, amount=penalty_amount) *)
LevyScan(student) ==
  LET rows == item_set(db, student)
      overdue_days == MaxOverdue(rows, 0)
      penalty_amount == BASE_PENALTY_AMOUNT * overdue_days
  IN /\ procs.pc # "scanned"
     /\ overdue_days >= 0
     /\ IF penalty_amount = 0
        THEN /\ procs' = NoLevy
             /\ penalties' = penalties
        ELSE /\ Len(penalties) < MaxPenalties
             /\ penalties' = Append(penalties, NewPenalty(student, penalty_amount, {}))
             /\ procs' = [pc |-> "scanned", student |-> student,
                          overdue_days |-> overdue_days,
                          seen |-> [i \in Items |->
                                     IF db[i].checked_out_by = student
                                     THEN days_overdue(db[i], NoDue) ELSE 0]]
     /\ last' = Outcome("levy_scan", "", penalty_amount)
     /\ UNCHANGED <<db, ledger, obj, now>>

(* equipment_lent = student.item_set.all() again; penalty.items.add(item) for
   the items whose days_overdue() equals overdue_days; penalty.save() *)
LevyAttach ==
  /\ procs.pc = "scanned"
  /\ LET rows == item_set(db, procs.student)
         n == Len(penalties)
     IN /\ \A x \in 1..Len(rows) : days_overdue(rows[x], NoDue) >= 0
        /\ penalties' = [penalties EXCEPT ![n].items = MostLate(rows, procs.overdue_days)]
        /\ procs' = [procs EXCEPT !.pc = "levied"]
        /\ last' = Outcome("levy", "", penalties[n].amount)
  /\ UNCHANGED <<db, ledger, obj, now>>

InitLevy ==
  /\ db = [i \in Items |-> NewItem(i, INSTOCK)]
  /\ ledger = <<>>
  /\ obj = NoObj
  /\ now = PenaltyStart
  /\ last = Outcome("init", "", 0)
  /\ penalties = <<>>
  /\ procs = NoLevy

NextLevy ==
  \/ \E i \in PenaltyItems : Fetch(i)
  \/ \E p \in Persons, c \in CustomDues \cup {NoDue} : CheckOut(p, c)
  \/ CheckIn
  \/ Tick
  \/ \E p \in Persons : LevyScan(p)
  \/ LevyAttach

SpecLevy == InitLevy /\ [][NextLevy]_vars

----------------------------------------------------------------------------
(* One call followed frame by frame, over every parent-kit relation the
   part_of_kit column can hold: any item may name any item of a kit type as its
   kit, itself included. A frame is a method running on its in-memory object;
   rest is what is left of the rows its loop fetched, ret the object of the call
   that has just returned to it. Only the MaxDepth innermost frames are kept:
   the frames below them matter again only once everything above has returned,
   and cut records that some were let go. With three items a chain of kits
   without a cycle nests at most four frames (three calls of a method and a
   save), fewer than MaxDepth. The Transaction rows a frame appends are left out
   of the state here: no method reads the ledger. *)

NestOps == {"save", "add_to_stock", "check_out", "check_in"}

Frame(op, self, person) ==
  [op |-> op, self |-> self, person |-> person, rest |-> <<>>, pc |-> "start", ret |-> NoObj]

Running(st, d, l) == [state |-> "running", stack |-> st, db |-> d, ledger |-> l, err |-> ""]

(* The call on top of the stack returns: its caller goes on, holding the object *)
Return(st, d, l) ==
  LET n == Len(st)
  IN IF n = 1
     THEN [state |-> "ended", stack |-> <<>>, db |-> d, ledger |-> l, err |-> ""]
     ELSE Running([SubSeq(st, 1, n - 1) EXCEPT ![n - 1].ret = st[n].self], d, l)

(* An exception leaves every frame: no method catches it *)
Raise(d, l, e) == [state |-> "ended", stack |-> <<>>, db |-> d, ledger |-> l, err |-> e]

(* The top frame calls a method on another object *)
Call(st, top, callee, d, l) ==
  Running(Append([st EXCEPT ![Len(st)] = top], callee), d, l)

Goes(st, top, d, l) == Running([st EXCEPT ![Len(st)] = top], d, l)

(* One step of Item.save *)
save_step(st, d, l) ==
  LET f == st[Len(st)]
  IN IF f.pc = "start"
     THEN IF f.self.serialnumber = "" /\ f.self.hip_number = ""
          THEN Raise(d, l, "ItemError")
          ELSE IF is_kit(f.self)
          THEN Goes(st, [f EXCEPT !.rest = contents(d, f.self.id), !.pc = "loop"], d, l)
          ELSE Return(st, [d EXCEPT ![f.self.id] = f.self], l)
     ELSE IF f.rest = <<>>
          THEN Return(st, [d EXCEPT ![f.self.id] = f.self], l)
          ELSE Call(st, [f EXCEPT !.rest = Tail(f.rest)],
                    Frame("save", set_due_datetime(Head(f.rest), f.self.due), NoPerson),
                    d, l)

(* One step of Item.add_to_stock *)
add_to_stock_step(st, d, l) ==
  LET f == st[Len(st)]
  IN IF f.pc = "start"
     THEN LET l1 == IF f.self.status # INSTOCK
                    THEN Append(l, Tx(f.self.id, NoPerson, ADD, NoKit)) ELSE l
              s1 == [f.self EXCEPT !.status = INSTOCK]
          IN IF is_kit(s1)
             THEN Goes(st, [f EXCEPT !.self = s1, !.rest = contents(d, s1.id),
                                     !.pc = "loop"], d, l1)
             ELSE Return([st EXCEPT ![Len(st)].self = s1], d, l1)
     ELSE IF f.pc = "loop"
     THEN IF f.rest = <<>>
          THEN Return(st, d, l)
          ELSE Call(st, [f EXCEPT !.rest = Tail(f.rest), !.pc = "added"],
                    Frame("add_to_stock", Head(f.rest), NoPerson), d, l)
     ELSE Call(st, [f EXCEPT !.pc = "loop"], Frame("save", f.ret, NoPerson), d, l)

(* One step of Item.check_out *)
check_out_step(st, d, l) ==
  LET f == st[Len(st)]
  IN IF f.pc = "start"
     THEN IF f.self.status # INSTOCK
          THEN Raise(d, l, "TransactionError")
          ELSE LET s1 == set_due_datetime([f.self EXCEPT !.status = OUT,
                                                        !.checked_out_by = f.person],
                                          NoDue)
               IN Call(st, [f EXCEPT !.self = s1, !.pc = "saved"],
                       Frame("save", s1, NoPerson),
                       d, Append(l, Tx(f.self.id, f.person, CHECKOUT, NoKit)))
     ELSE IF f.pc = "saved"
     THEN IF is_kit(f.self)
          THEN Goes(st, [f EXCEPT !.rest = contents(d, f.self.id), !.pc = "loop"], d, l)
          ELSE Return(st, d, l)
     ELSE IF f.rest = <<>>
          THEN Return(st, d, l)
          ELSE Call(st, [f EXCEPT !.rest = Tail(f.rest)],
                    Frame("check_out", Head(f.rest), f.person), d, l)

(* One step of Item.check_in *)
check_in_step(st, d, l) ==
  LET f == st[Len(st)]
  IN IF f.pc = "start"
     THEN IF f.self.status # OUT
          THEN Raise(d, l, "TransactionError")
          ELSE LET s1 == [f.self EXCEPT !.status = INSTOCK, !.checked_out_by = NoPerson]
               IN Call(st, [f EXCEPT !.self = s1, !.pc = "saved"],
                       Frame("save", s1, NoPerson),
                       d, Append(l, Tx(f.self.id, f.self.checked_out_by, CHECKIN, NoKit)))
     ELSE IF f.pc = "saved"
     THEN IF is_kit(f.self)
          THEN Goes(st, [f EXCEPT !.rest = contents(d, f.self.id), !.pc = "loop"], d, l)
          ELSE Return(st, d, l)
     ELSE IF f.rest = <<>>
          THEN Return(st, d, l)
          ELSE Call(st, [f EXCEPT !.rest = Tail(f.rest)],
                    Frame("check_in", Head(f.rest), NoPerson), d, l)

(* A caller calls one of the four methods on a row it has fetched *)
NestCall(op, i, p) ==
  /\ procs.state = "idle"
  /\ procs' = [state |-> "running", stack |-> <<Frame(op, db[i], p)>>, err |-> "",
               cut |-> FALSE]
  /\ last' = Outcome(op, "", 0)
  /\ UNCHANGED <<db, ledger, obj, now, penalties>>

(* The method on top of the stack runs up to its next call or return *)
NestStep ==
  /\ procs.state = "running"
  /\ LET st == procs.stack
         op == st[Len(st)].op
         r == IF op = "save" THEN save_step(st, db, ledger)
              ELSE IF op = "add_to_stock" THEN add_to_stock_step(st, db, ledger)
              ELSE IF op = "check_out" THEN check_out_step(st, db, ledger)
              ELSE check_in_step(st, db, ledger)
         deep == Len(r.stack) > MaxDepth
     IN /\ (procs.cut /\ Len(st) = 1) => (r.state = "running" \/ r.err # "")
        /\ procs' = [state |-> r.state,
                     stack |-> IF deep THEN Tail(r.stack) ELSE r.stack,
                     err |-> r.err,
                     cut |-> procs.cut \/ deep]
        /\ db' = r.db
  /\ UNCHANGED <<ledger, obj, now, last, penalties>>

InitNest ==
  /\ \E t \in [Items -> BOOLEAN], par \in [Items -> Items \cup {NoKit}],
        s \in {INSTOCK, OUT} :
       /\ \A i \in Items : par[i] # NoKit => t[par[i]]
       /\ db = [i \in Items |->
                  [NewItem(i, s) EXCEPT !.kit = t[i], !.part_of_kit = par[i],
                                        !.checked_out_by = IF s = OUT THEN 1 ELSE NoPerson,
                                        !.due = IF s = OUT THEN StartNow ELSE NoDue]]
  /\ ledger = <<>>
  /\ obj = NoObj
  /\ now = StartNow
  /\ last = Outcome("init", "", 0)
  /\ penalties = <<>>
  /\ procs = [state |-> "idle", stack |-> <<>>, err |-> "", cut |-> FALSE]

NextNest ==
  \/ \E op \in NestOps, i \in Items, p \in Persons : NestCall(op, i, p)
  \/ NestStep

SpecNest == InitNest /\ [][NextNest]_vars

(* A method that can take a step does take it *)
SpecNestFair == SpecNest /\ WF_vars(NestStep)

----------------------------------------------------------------------------
(* Properties *)

ContentIds(d, k) == {i \in Items : d[i].part_of_kit = k}

Rows(l, i, k) == {n \in 1..Len(l) : l[n].item = i /\ l[n].kind = k}

DueInputs == CustomDues \cup {NoDue}

(* C1: in every reachable state, a persisted item's status is CHECKED_OUT if and
   only if its borrower is set and its due timestamp is set. *)
C1_StatusIffBorrowerAndDue ==
  \A i \in Items :
    (db[i].status = OUT) <=> (db[i].checked_out_by # NoPerson /\ db[i].due # NoDue)

(* C2: check_out(person) on an IN_STOCK non-kit item appends one CHECKOUT row, and
   a check_in() that follows it leaves the item IN_STOCK with no borrower and
   appends one CHECKIN row right after that CHECKOUT row: two rows, in that order. *)
C2_CheckOutThenCheckIn ==
  [][ /\ \A p \in Persons, c \in DueInputs :
           (last'.op = "check_out" /\ obj.status = INSTOCK /\ ~obj.kit /\ CheckOut(p, c))
             => /\ last'.err = ""
                /\ ledger' = Append(ledger, Tx(obj.id, p, CHECKOUT, NoKit))
      /\ (last.op = "check_out" /\ last.err = "" /\ last'.op = "check_in" /\ ~obj.kit /\ CheckIn)
           => /\ last'.err = ""
              /\ obj'.status = INSTOCK /\ obj'.checked_out_by = NoPerson
              /\ db'[obj.id].status = INSTOCK /\ db'[obj.id].checked_out_by = NoPerson
              /\ Len(ledger) >= 1
              /\ ledger[Len(ledger)] = Tx(obj.id, obj.checked_out_by, CHECKOUT, NoKit)
              /\ ledger' = Append(ledger, Tx(obj.id, obj.checked_out_by, CHECKIN, NoKit))
    ]_vars

C2_Witness ==
  /\ last.op = "check_in" /\ last.err = "" /\ ~obj.kit
  /\ db[obj.id].status = INSTOCK /\ db[obj.id].checked_out_by = NoPerson
  /\ Len(ledger) = 2
  /\ ledger[1].kind = CHECKOUT /\ ledger[1].item = obj.id
  /\ ledger[2].kind = CHECKIN /\ ledger[2].item = obj.id

(* C3: check_out on an item that is not IN_STOCK raises TransactionError, appends
   no Transaction and changes neither the object nor any persisted row. *)
C3_CheckOutRefused ==
  [][ \A p \in Persons, c \in DueInputs :
        (last'.op = "check_out" /\ obj.status # INSTOCK /\ CheckOut(p, c))
          => /\ last'.err = "TransactionError"
             /\ ledger' = ledger
             /\ obj' = obj
             /\ db' = db
    ]_vars

C3_Witness ==
  /\ last.op = "check_out" /\ last.err = "TransactionError"
  /\ obj.status = REPAIR

C3_WitnessOut ==
  /\ last.op = "check_out" /\ last.err = "TransactionError"
  /\ obj.status = OUT

(* C4: check_in on an item that is not CHECKED_OUT raises TransactionError, appends
   no Transaction and changes neither the object nor any persisted row. *)
C4_CheckInRefused ==
  [][ (last'.op = "check_in" /\ obj.status # OUT /\ CheckIn)
        => /\ last'.err = "TransactionError"
           /\ ledger' = ledger
           /\ obj' = obj
           /\ db' = db
    ]_vars

C4_Witness ==
  /\ last.op = "check_in" /\ last.err = "TransactionError"
  /\ obj.status = REPAIR

(* C5: check_out(person) on an IN_STOCK kit whose contents are all IN_STOCK leaves the
   kit and every contained item CHECKED_OUT to that person, and appends exactly one
   CHECKOUT row for the kit and one for each contained item, and nothing else. *)
C5_KitCheckOut ==
  [][ \A p \in Persons, c \in DueInputs :
        (/\ last'.op = "check_out" /\ obj.kit /\ obj.status = INSTOCK
         /\ \A i \in ContentIds(db, obj.id) : db[i].status = INSTOCK
         /\ CheckOut(p, c))
          => /\ last'.err = ""
             /\ \A i \in ContentIds(db, obj.id) \cup {obj.id} :
                  /\ db'[i].status = OUT
                  /\ db'[i].checked_out_by = p
                  /\ Cardinality(Rows(ledger', i, CHECKOUT))
                       = Cardinality(Rows(ledger, i, CHECKOUT)) + 1
             /\ Len(ledger') = Len(ledger) + 1 + Cardinality(ContentIds(db, obj.id))
             /\ SubSeq(ledger', 1, Len(ledger)) = ledger
    ]_vars

C5_Witness ==
  /\ last.op = "check_out" /\ last.err = "" /\ obj.kit
  /\ Cardinality(ContentIds(db, obj.id)) = 2
  /\ Len(ledger) = 3
  /\ \A n \in 1..3 : ledger[n].kind = CHECKOUT
  /\ \A i \in Items : db[i].status = OUT /\ db[i].checked_out_by = obj.checked_out_by

(* C6: after a successful check_out(person, custom_due) on a kit, every contained
   item's due timestamp equals the kit's due timestamp. *)
C6_KitContentsDueAfterCheckOut ==
  [][ \A p \in Persons, c \in DueInputs :
        (last'.op = "check_out" /\ last'.err = "" /\ obj.kit /\ CheckOut(p, c))
          => \A i \in ContentIds(db', obj.id) : db'[i].due = db'[obj.id].due
    ]_vars

(* C7: after check_in is invoked on a CHECKED_OUT kit, the kit and every item
   contained in it are IN_STOCK with no borrower. *)
C7_KitCheckIn ==
  [][ (last'.op = "check_in" /\ obj.kit /\ obj.status = OUT /\ CheckIn)
        => \A i \in ContentIds(db', obj.id) \cup {obj.id} :
             db'[i].status = INSTOCK /\ db'[i].checked_out_by = NoPerson
    ]_vars

(* C8: immediately after a save of a kit, the persisted due timestamp of every
   contained item equals the kit's own due timestamp, set or not. *)
C8_KitSaveCascadesDue ==
  [][ (last'.op = "save" /\ last'.err = "" /\ obj.kit /\ Save)
        => \A i \in ContentIds(db', obj.id) : db'[i].due = db'[obj.id].due
    ]_vars

(* C9: set_due_datetime with an explicit timestamp sets due to it verbatim; with
   none, due is today + 3 days at 07:50, a Monday, when today is a Friday, and
   today + 1 day at 17:50 on every other day of the week. *)
C9_DuePolicy ==
  [][ \A c \in DueInputs :
        (last'.op = "set_due_datetime" /\ SetDueDatetime(c))
          => LET today == now \div 1440
                 friday == today % 7 = 4       \* day 0 is a Monday
             IN /\ c # NoDue => obj'.due = c
                /\ (c = NoDue /\ friday)
                     => /\ obj'.due = (today + 3) * 1440 + 7 * 60 + 50
                        /\ (obj'.due \div 1440) % 7 = 0
                /\ (c = NoDue /\ ~friday)
                     => obj'.due = (today + 1) * 1440 + 17 * 60 + 50
    ]_vars

C9_Witness ==
  /\ last.op = "set_due_datetime"
  /\ (now \div 1440) % 7 = 4
  /\ obj.due = ((now \div 1440) + 3) * 1440 + 470

C9_WitnessOtherDay ==
  /\ last.op = "set_due_datetime"
  /\ (now \div 1440) % 7 = 6
  /\ obj.due = ((now \div 1440) + 1) * 1440 + 1070

(* C10: days_overdue(as_of) returns 0 when the item is not CHECKED_OUT or as_of is
   at or before due; otherwise the number n of the 24-hour period the lateness falls
   in, (n - 1) * 24h <= as_of - due < n * 24h: 0 at due, 1 at due + 1 minute, 2 at
   due + 24h + 1 minute. *)
C10_DaysOverdue ==
  [][ \A a \in AsOfs :
        (last'.op = "days_overdue" /\ DaysOverdue(a))
          => LET t == IF a = NoDue THEN now ELSE a
                 n == last'.ret
             IN /\ last'.err = ""
                /\ (obj.status # OUT \/ t <= obj.due) => n = 0
                /\ (obj.status = OUT /\ t > obj.due)
                     => /\ n >= 1
                        /\ (n - 1) * 1440 <= t - obj.due
                        /\ t - obj.due < n * 1440
                /\ (obj.status = OUT /\ t = obj.due) => n = 0
                /\ (obj.status = OUT /\ t = obj.due + 1) => n = 1
                /\ (obj.status = OUT /\ t = obj.due + 1440 + 1) => n = 2
    ]_vars

C10_Witness ==
  /\ last.op = "days_overdue" /\ last.err = ""
  /\ obj.status = OUT /\ obj.due # NoDue
  /\ last.ret = 2

(* C11: find_by_number(n) looks at the rows whose hip_number is n or whose
   serialnumber is n: with none it raises the "No item found" ItemError, with more
   than one it raises the "Multiple matches" ItemError listing exactly those rows,
   with exactly one it returns that row; a number that is one row's serial number
   and is also another row's serial or HIP number is ambiguous. *)
C11_FindByNumber ==
  [][\A n \in Numbers :
       last'.op = "find_by_number" /\ FindByNumber(n) =>
         LET Hit(i) == db[i].hip_number = n \/ db[i].serialnumber = n
         IN /\ (~ \E i \in DOMAIN db : Hit(i)) =>
                 last'.err = "ItemError" /\ last'.msg = "No item found" /\ obj' = obj
            /\ (\E i, j \in DOMAIN db : i # j /\ Hit(i) /\ Hit(j)) =>
                 /\ last'.err = "ItemError" /\ last'.msg = "Multiple matches"
                 /\ \A i \in DOMAIN db : i \in last'.ids <=> Hit(i)
                 /\ obj' = obj
            /\ \A i \in DOMAIN db :
                 (Hit(i) /\ \A j \in DOMAIN db : Hit(j) => j = i) =>
                   last'.err = "" /\ obj' = db[i]
            /\ (\E i, j \in DOMAIN db :
                   i # j /\ db[i].serialnumber = n
                         /\ (db[j].serialnumber = n \/ db[j].hip_number = n)) =>
                 last'.msg = "Multiple matches"]_vars

(* a scanned number that is one row's serial number and another row's HIP number
   was refused as ambiguous, naming both rows *)
C11_Witness ==
  /\ last.op = "find_by_number"
  /\ last.msg = "Multiple matches"
  /\ \E i, j \in DOMAIN db :
       /\ i # j
       /\ db[i].serialnumber # ""
       /\ db[i].serialnumber = db[j].hip_number
       /\ db[i].hip_number # db[i].serialnumber
       /\ last.ids = {i, j}

(* C14: save() of an item whose serialnumber and hip_number are both empty raises
   ItemError and writes nothing, and no persisted row has both numbers empty. *)
C14_SaveNeedsANumber ==
  [][/\ (last'.op = "save" /\ obj.serialnumber = "" /\ obj.hip_number = "" /\ Save) =>
          last'.err = "ItemError" /\ db' = db /\ ledger' = ledger
     /\ \A i \in DOMAIN db' : ~(db'[i].serialnumber = "" /\ db'[i].hip_number = "")]_vars

(* a save of an item without numbers was refused while other items are persisted *)
C14_Witness ==
  /\ last.op = "save"
  /\ last.err = "ItemError"
  /\ obj.id = Unsaved
  /\ obj.serialnumber = "" /\ obj.hip_number = ""
  /\ Len(db) >= 1

(* C12: levy(person) takes the largest days_overdue among the rows whose borrower
   is the person: when no such row is overdue it creates no Penalty and returns
   nothing; otherwise it creates one Penalty for the person, of 2500 times that
   largest number, and returns it. *)
C12_LevyAmount ==
  [][\A p \in PenaltyPersons :
       last'.op = "levy" /\ Levy(p) =>
         LET lent == {i \in Items : db[i].checked_out_by = p}
             Over(i) == days_overdue(db[i], NoDue)
         IN /\ (\A i \in lent : Over(i) = 0) =>
                 penalties' = penalties /\ last'.ret = 0 /\ last'.err = ""
            /\ \A i \in lent :
                 (Over(i) > 0 /\ \A j \in lent : Over(j) <= Over(i)) =>
                   /\ Len(penalties') = Len(penalties) + 1
                   /\ SubSeq(penalties', 1, Len(penalties)) = penalties
                   /\ penalties'[Len(penalties')].student = p
                   /\ penalties'[Len(penalties')].amount = 2500 * Over(i)
                   /\ last'.ret = 2500 * Over(i)
                   /\ last'.err = ""]_vars

(* a penalty was levied on a person holding two items overdue by different
   numbers of days *)
C12_Witness ==
  /\ last.op = "levy"
  /\ last.ret >= 2 * 2500
  /\ Len(penalties) >= 1
  /\ \E i, j \in Items :
       /\ db[i].checked_out_by = penalties[Len(penalties)].student
       /\ db[j].checked_out_by = penalties[Len(penalties)].student
       /\ days_overdue(db[i], NoDue) > days_overdue(db[j], NoDue)
       /\ days_overdue(db[j], NoDue) > 0

(* a levy on a person with nothing overdue created nothing *)
C12_WitnessNothing ==
  /\ last.op = "levy"
  /\ last.ret = 0
  /\ \E p \in PenaltyPersons, i \in Items :
       db[i].checked_out_by = p /\ db[i].status = OUT /\ days_overdue(db[i], NoDue) = 0

(* C13: the items attached to the Penalty that levy(person) creates are the
   person's rows whose days_overdue equals the largest one: all of those that
   tie, and none that is less overdue. *)
C13_LevyItems ==
  [][\A p \in PenaltyPersons :
       (last'.op = "levy" /\ Len(penalties') > Len(penalties) /\ Levy(p)) =>
         LET lent == {i \in Items : db[i].checked_out_by = p}
             Over(i) == days_overdue(db[i], NoDue)
             Most(i) == i \in lent /\ \A j \in lent : Over(j) <= Over(i)
         IN \A i \in Items : i \in penalties'[Len(penalties')].items <=> Most(i)]_vars

(* a penalty with two tied items attached *)
C13_Witness ==
  /\ last.op = "levy"
  /\ Len(penalties) >= 1
  /\ Cardinality(penalties[Len(penalties)].items) = 2

(* a penalty that leaves out an item of the person that is less overdue *)
C13_WitnessLess ==
  /\ last.op = "levy"
  /\ Len(penalties) >= 1
  /\ \E i \in Items :
       /\ db[i].checked_out_by = penalties[Len(penalties)].student
       /\ days_overdue(db[i], NoDue) > 0
       /\ i \notin penalties[Len(penalties)].items

(* C15, as stated: add_to_stock on an item already IN_STOCK appends no Transaction
   and changes nothing; on an item not IN_STOCK it appends exactly one ADDED
   transaction and sets the status to IN_STOCK. *)
C15_AddToStockAsStated ==
  [][(last'.op = "add_to_stock" /\ AddToStock) =>
       /\ obj.status = INSTOCK => ledger' = ledger /\ db' = db /\ obj' = obj
       /\ obj.status # INSTOCK =>
            /\ Len(ledger') = Len(ledger) + 1
            /\ ledger'[Len(ledger')].item = obj.id
            /\ ledger'[Len(ledger')].kind = ADD
            /\ obj'.status = INSTOCK]_vars

(* C15, amended: add_to_stock leaves the in-memory item IN_STOCK and appends only
   ADDED rows, exactly one for the item itself when it was not IN_STOCK and, for a
   kit, exactly one for each contained item that was not IN_STOCK, none for any
   other item; on a non-kit item already IN_STOCK it changes nothing; it does not
   write the item's own row; and a second call right after a first one changes
   neither the item, nor the contained items, nor the ledger. *)
C15_AddToStockIdempotent ==
  [][(last'.op = "add_to_stock" /\ AddToStock) =>
       LET Added(i) == {n \in (Len(ledger) + 1)..Len(ledger') : ledger'[n].item = i}
           Reset(i) == \/ i = obj.id /\ obj.status # INSTOCK
                       \/ /\ is_kit(obj) /\ db[i].part_of_kit = obj.id
                          /\ db[i].status # INSTOCK
       IN /\ last'.err = ""
          /\ obj'.status = INSTOCK
          /\ SubSeq(ledger', 1, Len(ledger)) = ledger
          /\ \A n \in (Len(ledger) + 1)..Len(ledger') : ledger'[n].kind = ADD
          /\ \A i \in Items : Cardinality(Added(i)) = IF Reset(i) THEN 1 ELSE 0
          /\ db'[obj.id] = db[obj.id]
          /\ (~is_kit(obj) /\ obj.status = INSTOCK) =>
               db' = db /\ ledger' = ledger /\ obj' = obj
          /\ last.op = "add_to_stock" =>
               db' = db /\ ledger' = ledger /\ obj' = obj]_vars

(* add_to_stock has returned on a kit holding an item that was not IN_STOCK; the
   call can be made again from this state *)
C15_Witness ==
  /\ last.op = "add_to_stock"
  /\ is_kit(obj)
  /\ Len(ledger) >= 2
  /\ ledger[Len(ledger)].kind = ADD
  /\ ledger[Len(ledger)].item # obj.id
  /\ db[ledger[Len(ledger)].item].part_of_kit = obj.id
  /\ db[ledger[Len(ledger)].item].status = INSTOCK

(* C16: when two check_out calls on the same IN_STOCK item are interleaved, at
   most one succeeds: the ledger never holds two CHECKOUT rows of an item with no
   CHECKIN row of that item between them. *)
C16_OneCheckOutAtATime ==
  \A m, n \in 1..Len(ledger) :
    (/\ m < n
     /\ ledger[m].kind = CHECKOUT /\ ledger[n].kind = CHECKOUT
     /\ ledger[m].item = ledger[n].item) =>
      \E k \in (m + 1)..(n - 1) :
        ledger[k].kind = CHECKIN /\ ledger[k].item = ledger[m].item

(* C17: after a check_out with no explicit due timestamp, the item's due
   timestamp is at least 24 hours after the moment of the checkout, whatever the
   day of the week and the time of day. *)
C17_DueADayLater ==
  [][\A p \in Persons :
       (last'.op = "check_out" /\ last'.err = "" /\ CheckOut(p, NoDue)) =>
         obj'.due >= now + MinutesPerDay]_vars

(* C18: every operation that changes an item's persisted status, borrower or due
   timestamp appends a Transaction for that item, exactly one per change. *)
C18_EveryChangeRecorded ==
  [][\A i \in Items :
       (\/ db'[i].status # db[i].status
        \/ db'[i].checked_out_by # db[i].checked_out_by
        \/ db'[i].due # db[i].due) =>
         Cardinality({n \in (Len(ledger) + 1)..Len(ledger') : ledger'[n].item = i}) = 1]_vars

(* C19: in every reachable state a persisted item has a due timestamp only while
   it is CHECKED_OUT. *)
C19_DueOnlyWhileOut ==
  \A i \in Items : db[i].due # NoDue => db[i].status = OUT

(* C20: every Penalty row that exists, levied directly or through the penalty
   statement of any person, references a Person of student kind. *)
C20_PenaltiesOnStudents ==
  \A n \in 1..Len(penalties) : kind(penalties[n].student) = STUDENT_KIND

(* C21: check_out on an IN_STOCK kit holding an item that is not IN_STOCK does not
   raise that item's error: it returns normally and has checked out the other
   contained items. *)
C21_KitCheckOutSwallowsFailure ==
  [][\A p \in Persons, c \in DueInputs :
       (/\ last'.op = "check_out"
        /\ is_kit(obj) /\ obj.status = INSTOCK
        /\ \E i \in Items : db[i].part_of_kit = obj.id /\ db[i].status # INSTOCK
        /\ CheckOut(p, c)) =>
         /\ last'.err = ""
         /\ \A i \in Items :
              (db[i].part_of_kit = obj.id /\ db[i].status = INSTOCK) => db'[i].status = OUT]_vars

(* C22: when check_out or check_in on a kit ends, either the kit and every
   contained item have made the transition, each with its Transaction appended,
   or the kit, the contained items and the ledger are as before the call. *)
C22_KitAllOrNothing ==
  [][(last'.op \in {"check_out", "check_in"} /\ is_kit(obj)) =>
       LET to == IF last'.op = "check_out" THEN OUT ELSE INSTOCK
           k == IF last'.op = "check_out" THEN CHECKOUT ELSE CHECKIN
           members == {obj.id} \cup {i \in Items : db[i].part_of_kit = obj.id}
           New(i) == {n \in (Len(ledger) + 1)..Len(ledger') :
                        ledger'[n].item = i /\ ledger'[n].kind = k}
       IN \/ \A i \in members : db'[i].status = to /\ Cardinality(New(i)) = 1
          \/ db' = db /\ ledger' = ledger]_vars

(* C24: for a CHECKED_OUT item and an as_of later than due, days_overdue(as_of) is
   the lateness as_of - due in 24-hour periods, a partial period counted as a
   full one: the n with (n - 1) * 24h < as_of - due <= n * 24h, also when the
   lateness is a whole number of 24-hour periods. *)
C24_DaysOverdueRoundsUp ==
  [][\A a \in AsOfs :
       (/\ last'.op = "days_overdue"
        /\ obj.status = OUT /\ obj.due # NoDue
        /\ a # NoDue /\ a > obj.due
        /\ DaysOverdue(a)) =>
         /\ last'.err = ""
         /\ (last'.ret - 1) * MinutesPerDay < a - obj.due
         /\ a - obj.due <= last'.ret * MinutesPerDay]_vars

(* C28: for every item, its CHECKOUT and CHECKIN rows alternate in ledger order,
   the first of them a CHECKOUT, and each CHECKIN carries the person of the
   CHECKOUT before it. *)
C28_CheckOutCheckInAlternate ==
  \A n \in 1..Len(ledger) :
    ledger[n].kind \in {CHECKOUT, CHECKIN} =>
      LET before == {m \in 1..(n - 1) : /\ ledger[m].item = ledger[n].item
                                        /\ ledger[m].kind \in {CHECKOUT, CHECKIN}}
      IN IF before = {}
         THEN ledger[n].kind = CHECKOUT
         ELSE LET m == CHOOSE x \in before : \A y \in before : y <= x
              IN /\ ledger[n].kind # ledger[m].kind
                 /\ ledger[n].kind = CHECKIN => ledger[n].person = ledger[m].person

(* C29: every item contained in a kit has the status and the borrower of the kit. *)
C29_ContentsFollowKit ==
  \A i \in Items :
    db[i].part_of_kit # NoKit =>
      /\ db[i].status = db[db[i].part_of_kit].status
      /\ db[i].checked_out_by = db[db[i].part_of_kit].checked_out_by

(* C30: an item's persisted status agrees with its latest Transaction: CHECKED_OUT
   exactly when that is a CHECKOUT, IN_STOCK when it is a CHECKIN or an ADDED. *)
C30_StatusAgreesWithLedger ==
  \A i \in Items :
    LET rows == {n \in 1..Len(ledger) : ledger[n].item = i}
    IN rows # {} =>
         LET n == CHOOSE x \in rows : \A y \in rows : y <= x
         IN /\ db[i].status = OUT <=> ledger[n].kind = CHECKOUT
            /\ ledger[n].kind \in {CHECKIN, ADD} => db[i].status = INSTOCK

(* C26: a parent-kit reference, when set, points to an item of a kit type, the
   item that holds it is not itself a kit, and a reference is only ever given to
   an item that had none. *)
C26_ParentIsAKit ==
  [][\A i \in Items :
       /\ db'[i].part_of_kit # NoKit =>
            /\ db'[db'[i].part_of_kit].kit = TRUE
            /\ db'[i].kit = FALSE
       /\ (db'[i].part_of_kit # db[i].part_of_kit /\ db'[i].part_of_kit # NoKit) =>
            db[i].part_of_kit = NoKit]_vars

(* an item was added to a kit while another kit exists that could have taken it *)
C26_Witness ==
  /\ last.op = "buildkit"
  /\ \E i \in Items, k \in Items :
       /\ db[i].part_of_kit # NoKit
       /\ db[k].kit = TRUE
       /\ k # db[i].part_of_kit

(* C25: a checkout request whose person id is on no record, or is the id of a
   person whose id_expiry is today or earlier, ends with an error and checks
   nothing out: no Transaction is appended and no item changes. *)
C25_NoCheckOutWithoutValidId ==
  [][\A pid \in SuppliedIds, n \in ScannedNumbers :
       (/\ last'.op = "check_out_view"
        /\ \/ pid \notin People
           \/ id_expiry(pid) # NoExpiry /\ id_expiry(pid) <= date_today
        /\ CheckOutView(pid, n, NoDue)) =>
         /\ last'.err # ""
         /\ db' = db
         /\ ledger' = ledger]_vars

(* a person who borrowed an item before was refused on the day their id expires *)
C25_Witness ==
  /\ last.op = "check_out_view"
  /\ last.err = "DoesNotExist"
  /\ date_today = ExpiryDay
  /\ \E n \in 1..Len(ledger) : ledger[n].kind = CHECKOUT /\ ledger[n].person = 2
  /\ \E i \in Items : db[i].status = INSTOCK /\ db[i].serialnumber \in ScannedNumbers

(* C23: when check-ins or the passage of time come between the two scans of
   levy(person), the Penalty it creates still has items attached, and every
   attached item was overdue by amount / 2500 days at the first scan. *)
C23_LevyItemsFromFirstScan ==
  procs.pc = "levied" =>
    LET penalty == penalties[Len(penalties)]
    IN /\ penalty.items # {}
       /\ \A i \in penalty.items : procs.seen[i] * 2500 = penalty.amount

(* C27: every add_to_stock, check_out, check_in and save call ends, by returning
   or by raising, whatever the parent-kit relation between the items. *)
C27_CallsTerminate ==
  (procs.state = "running") ~> (procs.state = "ended")

====
